---- MODULE Spec2Model ----
(***************************************************************************)
(* A model of the 3D wireframe renderer of src/main.py: the Window's frame *)
(* delta, the ViewPoint (position, field of view), the Cube geometry, the  *)
(* RenderEngine's projection and line drawing, and the frame loop of main. *)
(*                                                                         *)
(* Numbers.  The program computes in floating point; the model computes in *)
(* fixed point:                                                            *)
(*   time      in ticks, TicksPerSec ticks to the second;                  *)
(*   positions in world units (MOVESPEED * dt is a whole number of units); *)
(*   fov       in degrees (ZOOMSPEED * scroll * dt is a whole number);     *)
(*   angles    in millidegrees (AngleScale to the degree);                 *)
(*   screen    in tenths of a pixel (PixelScale to the pixel).             *)
(***************************************************************************)
EXTENDS Integers, Sequences, FiniteSets, TLC

VARIABLES pc, frame, dt, pos, fov, keys, evCount, polygons, cubeArgs, coords, lines

vars == <<pc, frame, dt, pos, fov, keys, evCount, polygons, cubeArgs, coords, lines>>

----------------------------------------------------------------------------
(* Units *)

TicksPerSec == 100
AngleScale == 1000
PixelScale == 10

(* Bounds of the model *)

MaxFrames == 2
MaxEvents == 1
MaxCubes == 2

(* Inputs of the model *)

Keys == {"K_d", "K_a", "K_SPACE", "K_LSHIFT", "K_w", "K_s"}

Pressed(S) == [k \in Keys |-> IF k \in S THEN 1 ELSE 0]

(* keys_pressed snapshots: no key, each key alone, each opposing pair, a    *)
(* diagonal, and every key at once                                         *)
KeyStates ==
    {Pressed({})} \cup {Pressed({k}) : k \in Keys}
        \cup {Pressed({"K_w", "K_s"}), Pressed({"K_a", "K_d"}),
              Pressed({"K_SPACE", "K_LSHIFT"}), Pressed({"K_w", "K_d"}),
              Pressed(Keys)}

(* event.y of a MOUSEWHEEL event *)
ScrollDeltas == {-2, -1, 1, 2}

(* time() - prev_time of a frame after the first, in ticks *)
FrameDelta == 10

(* arguments of the Cube constructor *)
CubeAnchors == {0}
CubePositions == {<<0, 0, 0>>, <<20, 0, 0>>, <<-5, 5, 10>>}
CubeSideLengths == {-10, 0, 3, 10}

----------------------------------------------------------------------------
(* Arithmetic helpers *)

Abs(a) == IF a < 0 THEN -a ELSE a

Sign(a) == IF a < 0 THEN -1 ELSE IF a > 0 THEN 1 ELSE 0

Max(a, b) == IF a >= b THEN a ELSE b

(* a / b for b # 0, rounded to the nearest integer, halves away from zero *)
Quot(a, b) ==
    Sign(a) * Sign(b) * ((2 * Abs(a) + Abs(b)) \div (2 * Abs(b)))

----------------------------------------------------------------------------
(* Window (src/main.py 7-64) *)

WIDTH == 1000
HEIGHT == 1000

(* Window.__init__: self._dt = 1.0 *)
InitialDt == TicksPerSec

(* Window.to_pygame_coords, on tenths of a pixel *)
to_pygame_coords(c) ==
    [x |-> c.x + (WIDTH \div 2) * PixelScale,
     y |-> -(c.y - (HEIGHT \div 2) * PixelScale)]

----------------------------------------------------------------------------
(* ViewPoint (src/main.py 66-103) *)

MOVESPEED == 100
ZOOMSPEED == 100

(* update with the backward key ignored on the z axis *)
update_NoBackKey(p, k, d) ==
    [x |-> p.x + ((k["K_d"] - k["K_a"]) * MOVESPEED * d) \div TicksPerSec,
     y |-> p.y + ((k["K_SPACE"] - k["K_LSHIFT"]) * MOVESPEED * d) \div TicksPerSec,
     z |-> p.z + (k["K_w"] * MOVESPEED * d) \div TicksPerSec]

(* ViewPoint.update: the position after input() with keys_pressed = k *)
update(p, k, d) ==
    [x |-> p.x + ((k["K_d"] - k["K_a"]) * MOVESPEED * d) \div TicksPerSec,
     y |-> p.y + ((k["K_SPACE"] - k["K_LSHIFT"]) * MOVESPEED * d) \div TicksPerSec,
     z |-> p.z + ((k["K_w"] - k["K_s"]) * MOVESPEED * d) \div TicksPerSec]

(* adj_fov without the upper clamp *)
adj_fov_NoUpperClamp(f, scrollwheel, d) ==
    LET f1 == f - (ZOOMSPEED * scrollwheel * d) \div TicksPerSec
    IN  IF f1 < 1 THEN 1 ELSE f1

(* ViewPoint.adj_fov: the fov after the call *)
adj_fov(f, scrollwheel, d) ==
    LET f1 == f - (ZOOMSPEED * scrollwheel * d) \div TicksPerSec
        f2 == IF f1 < 1 THEN 1 ELSE f1
    IN  IF f2 > 180 THEN 180 ELSE f2

----------------------------------------------------------------------------
(* math.atan and math.degrees: degrees(atan(n / d)) in millidegrees, for   *)
(* d # 0, computed by CORDIC vectoring on the vector (|d|, |n|) scaled up  *)
(* to 29 bits, the angle accumulated in microdegrees.  Over 0..140 by      *)
(* 1..140 the microdegree sum is within 0.011 millidegrees of math.atan,   *)
(* and no intermediate value leaves 32 bits.  atan is odd and n / d has    *)
(* the sign of n * d, so the sign is applied to the angle of |n| / |d|.    *)

CordicSteps == 24

CordicAngles ==
    <<45000000, 26565051, 14036243, 7125016, 3576334, 1789911, 895174, 447614,
      223811, 111906, 55953, 27976, 13988, 6994, 3497, 1749, 874, 437, 219,
      109, 55, 27, 14, 7>>

RECURSIVE Pow2(_)
Pow2(i) == IF i = 0 THEN 1 ELSE 2 * Pow2(i - 1)

RECURSIVE Cordic(_, _, _, _, _)
Cordic(x, y, z, i, p) ==
    IF i > CordicSteps \/ y = 0 THEN z
    ELSE IF y > 0
         THEN Cordic(x + (y \div p), y - (x \div p), z + CordicAngles[i], i + 1, 2 * p)
         ELSE Cordic(x - (y \div p), y + (x \div p), z - CordicAngles[i], i + 1, 2 * p)

CordicAtan(n, d) ==
    LET s == Pow2(29) \div Max(n, d)
    IN  Quot(Cordic(d * s, n * s, 0, 1, 1), 1000000 \div AngleScale)

(* the largest |x_diff|, |y_diff|, |z_diff| a render can meet: the cube of   *)
(* main spans 0..10, the viewpoint starts at -10 and moves at most          *)
(* MOVESPEED * dt a frame; the scenes of CubePositions lie within it        *)
MaxOffset ==
    20 + (MOVESPEED * (InitialDt + (MaxFrames - 1) * FrameDelta)) \div TicksPerSec

(* CordicAtan tabulated once over the offsets in reach *)
AtanTable == [n \in 0..MaxOffset |-> [d \in 1..MaxOffset |-> CordicAtan(n, d)]]

AtanDeg(n, d) == Sign(n) * Sign(d) * AtanTable[Abs(n)][Abs(d)]

----------------------------------------------------------------------------
(* Polygon and Cube (src/main.py 105-145) *)

Vec3(a, b, c) == [x |-> a, y |-> b, z |-> c]

(* Polygon.__init__; anchor is a 0-based index *)
Polygon(vertices, anchor) ==
    [vertices |-> vertices, pos |-> vertices[anchor + 1]]

(* Cube.__init__ with the third and fourth vertex in each other's place *)
Cube_Reordered(anchor, p, side_length) ==
    LET cpos == Vec3(p[1], p[2], p[3])
        vertices ==
            << Vec3(cpos.x, cpos.y, cpos.z),
               Vec3(cpos.x, cpos.y, cpos.z + side_length),
               Vec3(cpos.x, cpos.y + side_length, cpos.z + side_length),
               Vec3(cpos.x, cpos.y + side_length, cpos.z),
               Vec3(cpos.x + side_length, cpos.y, cpos.z),
               Vec3(cpos.x + side_length, cpos.y, cpos.z + side_length),
               Vec3(cpos.x + side_length, cpos.y + side_length, cpos.z),
               Vec3(cpos.x + side_length, cpos.y + side_length, cpos.z + side_length) >>
    IN  [side_length |-> side_length] @@ Polygon(vertices, anchor)

(* Cube.__init__ *)
Cube(anchor, p, side_length) ==
    LET cpos == Vec3(p[1], p[2], p[3])
        vertices ==
            << Vec3(cpos.x, cpos.y, cpos.z),
               Vec3(cpos.x, cpos.y, cpos.z + side_length),
               Vec3(cpos.x, cpos.y + side_length, cpos.z),
               Vec3(cpos.x, cpos.y + side_length, cpos.z + side_length),
               Vec3(cpos.x + side_length, cpos.y, cpos.z),
               Vec3(cpos.x + side_length, cpos.y, cpos.z + side_length),
               Vec3(cpos.x + side_length, cpos.y + side_length, cpos.z),
               Vec3(cpos.x + side_length, cpos.y + side_length, cpos.z + side_length) >>
    IN  [side_length |-> side_length] @@ Polygon(vertices, anchor)

----------------------------------------------------------------------------
(* RenderEngine.render (src/main.py 153-174) *)

(* the vertices in the order the two nested loops visit them *)
RECURSIVE AllVertices(_)
AllVertices(polys) ==
    IF polys = <<>> THEN <<>>
    ELSE Head(polys).vertices \o AllVertices(Tail(polys))

(* the index of the polygon that the k-th visited vertex belongs to *)
RECURSIVE PolygonOf(_, _)
PolygonOf(polys, k) ==
    IF k <= Len(Head(polys).vertices) THEN 1
    ELSE 1 + PolygonOf(Tail(polys), k - Len(Head(polys).vertices))

(* the projection with the angle divided by the whole fov *)
Project_WholeFov(vertice, vpos, vfov) ==
    LET x_diff == vertice.x - vpos.x
        y_diff == vertice.y - vpos.y
        z_diff == vertice.z - vpos.z
        x_angle == AtanDeg(x_diff, z_diff)
        y_angle == AtanDeg(y_diff, z_diff)
        whole == vfov * AngleScale
        x == Quot(x_angle * (WIDTH \div 2) * PixelScale, whole)
        y == Quot(y_angle * (HEIGHT \div 2) * PixelScale, whole)
    IN  to_pygame_coords([x |-> x, y |-> y])

(* lines 161-171 for one vertex with z_diff # 0: the point appended *)
Project(vertice, vpos, vfov) ==
    LET x_diff == vertice.x - vpos.x
        y_diff == vertice.y - vpos.y
        z_diff == vertice.z - vpos.z
        x_angle == AtanDeg(x_diff, z_diff)
        y_angle == AtanDeg(y_diff, z_diff)
        half == (vfov * AngleScale) \div 2
        x == Quot(x_angle * (WIDTH \div 2) * PixelScale, half)
        y == Quot(y_angle * (HEIGHT \div 2) * PixelScale, half)
    IN  to_pygame_coords([x |-> x, y |-> y])

(* the first vertex whose x_diff / z_diff raises ZeroDivisionError, or one  *)
(* past the last vertex                                                    *)
RECURSIVE FirstZeroDepth(_, _, _)
FirstZeroDepth(vs, vpos, k) ==
    IF k > Len(vs) \/ vs[k].z - vpos.z = 0 THEN k
    ELSE FirstZeroDepth(vs, vpos, k + 1)

(* a line from the newly appended point back to every earlier point *)
DrawAfterAppend_FromNewest(k) == [i \in 1..(k - 1) |-> <<i, k>>]

(* lines 173-174 after the k-th append: range(len(coords) - 1) *)
DrawAfterAppend(k) == [i \in 1..(k - 1) |-> <<i, i + 1>>]

(* every pygame.draw.line call of one render that appended m points *)
RECURSIVE DrawCalls(_)
DrawCalls(m) ==
    IF m = 0 THEN <<>> ELSE DrawCalls(m - 1) \o DrawAfterAppend(m)

render(polys, vpos, vfov) ==
    LET vs == AllVertices(polys)
        stop == FirstZeroDepth(vs, vpos, 1)
    IN  [coords |-> [k \in 1..(stop - 1) |-> Project(vs[k], vpos, vfov)],
         lines |-> DrawCalls(stop - 1),
         raised |-> stop <= Len(vs)]

----------------------------------------------------------------------------
(* main (src/main.py 176-224) *)

Init ==
    /\ pc = "events"
    /\ frame = 1
    /\ dt = InitialDt
    /\ pos = Vec3(-10, 0, -10)
    /\ fov = 90
    /\ keys = Pressed({})
    /\ evCount = 0
    /\ polygons = <<Cube(0, <<0, 0, 0>>, 10)>>
    /\ cubeArgs = <<[anchor |-> 0, pos |-> <<0, 0, 0>>, side_length |-> 10]>>
    /\ coords = <<>>
    /\ lines = <<>>

(* lines 203-204: a MOUSEWHEEL event of the queue *)
MouseWheel ==
    /\ pc = "events"
    /\ evCount < MaxEvents
    /\ \E y \in ScrollDeltas : fov' = adj_fov(fov, y, dt)
    /\ evCount' = evCount + 1
    /\ UNCHANGED <<pc, frame, dt, pos, keys, polygons, cubeArgs, coords, lines>>

(* lines 198-201: a QUIT event of the queue *)
Quit ==
    /\ pc = "events"
    /\ pc' = "exited"
    /\ UNCHANGED <<frame, dt, pos, fov, keys, evCount, polygons, cubeArgs, coords, lines>>

(* lines 206-221: the queue is drained; the surface is filled and           *)
(* viewpoint.update() reads the keyboard                                   *)
ViewPointUpdate ==
    /\ pc = "events"
    /\ \E k \in KeyStates :
        /\ keys' = k
        /\ pos' = update(pos, k, dt)
    /\ coords' = <<>>
    /\ lines' = <<>>
    /\ pc' = "render"
    /\ UNCHANGED <<frame, dt, fov, evCount, polygons, cubeArgs>>

(* line 222 *)
Render ==
    /\ pc = "render"
    /\ LET r == render(polygons, pos, fov)
       IN  /\ coords' = r.coords
           /\ lines' = r.lines
           /\ pc' = IF r.raised THEN "crashed" ELSE "present"
    /\ UNCHANGED <<frame, dt, pos, fov, keys, evCount, polygons, cubeArgs>>

(* line 224: Window.update *)
WindowUpdate ==
    /\ pc = "present"
    /\ frame < MaxFrames
    /\ dt' = FrameDelta
    /\ frame' = frame + 1
    /\ evCount' = 0
    /\ pc' = "events"
    /\ UNCHANGED <<pos, fov, keys, polygons, cubeArgs, coords, lines>>

Next == MouseWheel \/ Quit \/ ViewPointUpdate \/ Render \/ WindowUpdate

Spec == Init /\ [][Next]_vars

----------------------------------------------------------------------------
(* The geometry and the renderer on their own: cubes are constructed into  *)
(* a scene, which is then rendered from main's initial viewpoint.          *)

InitScene ==
    /\ pc = "scene"
    /\ frame = 1
    /\ dt = InitialDt
    /\ pos = Vec3(-10, 0, -10)
    /\ fov = 90
    /\ keys = Pressed({})
    /\ evCount = 0
    /\ polygons = <<>>
    /\ cubeArgs = <<>>
    /\ coords = <<>>
    /\ lines = <<>>

NewCube ==
    /\ pc = "scene"
    /\ Len(polygons) < MaxCubes
    /\ \E a \in CubeAnchors, p \in CubePositions, s \in CubeSideLengths :
        /\ polygons' = Append(polygons, Cube(a, p, s))
        /\ cubeArgs' = Append(cubeArgs, [anchor |-> a, pos |-> p, side_length |-> s])
    /\ UNCHANGED <<pc, frame, dt, pos, fov, keys, evCount, coords, lines>>

RenderScene ==
    /\ pc = "scene"
    /\ LET r == render(polygons, pos, fov)
       IN  /\ coords' = r.coords
           /\ lines' = r.lines
           /\ pc' = IF r.raised THEN "crashed" ELSE "present"
    /\ UNCHANGED <<frame, dt, pos, fov, keys, evCount, polygons, cubeArgs>>

NextScene == NewCube \/ RenderScene

SpecScene == InitScene /\ [][NextScene]_vars

----------------------------------------------------------------------------
(* Properties *)

Range(f) == {f[i] : i \in DOMAIN f}

(* the segments drawn, as unordered pairs of indices into coords *)
DrawnSegments == {{l[1], l[2]} : l \in Range(lines)}

(* the vertex behind the k-th point of coords *)
VertexAt(k) == AllVertices(polygons)[k]

Rendered == pc \in {"present", "crashed"}

(* C1: after every adj_fov call, whatever the prior fov, the scroll delta   *)
(* and the frame delta, and so at every moment of the frame loop, the      *)
(* viewpoint's fov lies in [1, 180].                                       *)
C1_FovInRange == 1 <= fov /\ fov <= 180

(* a first-frame scroll of -1 has pushed the fov to 190 and been clamped *)
C1_Witness == frame = 1 /\ evCount > 0 /\ fov = 180

CubeEdge(u, v) == Cardinality({c \in {"x", "y", "z"} : u[c] # v[c]}) = 1

(* C3: the segments render draws are exactly the edges of each polygon      *)
(* taken on its own (for a cube, the 12 vertex pairs that differ in one    *)
(* coordinate); none joins two polygons, none joins two vertices of a cube *)
(* that are not an edge.                                                   *)
C3_PolygonEdgesOnly ==
    pc = "present" =>
        LET n == Len(coords)
        IN  DrawnSegments =
                {{i, j} : <<i, j>> \in
                    {e \in (1..n) \X (1..n) :
                        /\ PolygonOf(polygons, e[1]) = PolygonOf(polygons, e[2])
                        /\ CubeEdge(VertexAt(e[1]), VertexAt(e[2]))}}

(* C4: a vertex at zero depth offset is recovered inside the frame: render  *)
(* completes and the frame loop goes on; no exception escapes.             *)
C4_NoUnhandledException == pc # "crashed"

(* C5: no drawn segment ends at the projected point of a vertex behind or   *)
(* level with the viewpoint.                                               *)
C5_NoLineBehindViewpoint ==
    Rendered =>
        \A l \in Range(lines) :
            /\ VertexAt(l[1]).z - pos.z > 0
            /\ VertexAt(l[2]).z - pos.z > 0

(* C6: constructing a Cube with side length <= 0 fails and yields no cube. *)
C6_NonPositiveSideRejected ==
    \A i \in 1..Len(polygons) : polygons[i].side_length > 0

(* C7: for every anchor position p and side length L > 0 the cube has       *)
(* exactly 8 vertices, p + (bx*L, by*L, bz*L) for each of the 8            *)
(* combinations of bx, by, bz in {0,1} exactly once, z-offset innermost,   *)
(* y-offset next, x-offset outermost.                                      *)
C7_CubeVertices ==
    \A i \in 1..Len(polygons) :
        LET p == cubeArgs[i].pos
            L == cubeArgs[i].side_length
            vs == polygons[i].vertices
        IN  L > 0 =>
                /\ Len(vs) = 8
                /\ \A bx \in {0, 1}, by \in {0, 1}, bz \in {0, 1} :
                        vs[4 * bx + 2 * by + bz + 1]
                            = [x |-> p[1] + bx * L, y |-> p[2] + by * L, z |-> p[3] + bz * L]
                /\ Cardinality(Range(vs)) = 8

C7_Witness ==
    /\ Len(polygons) = 2
    /\ cubeArgs[2].pos = <<-5, 5, 10>>
    /\ cubeArgs[2].side_length = 3
    /\ polygons[2].vertices[4] = Vec3(-5, 8, 13)

OnlyPressed(S) == \A k \in Keys : keys'[k] = (IF k \in S THEN 1 ELSE 0)

(* C8: a viewpoint move changes each axis by (positive key - negative key)  *)
(* * movementSpeed * elapsedSeconds: forward alone at speed 100 over one   *)
(* second adds exactly 100 to z and leaves x and y; both keys of an        *)
(* opposing pair give no net change on their axis; fov never changes.      *)
C8_MoveStep ==
    (pc = "events" /\ pc' = "render") =>
        /\ fov' = fov
        /\ TicksPerSec * (pos'.x - pos.x) = (keys'["K_d"] - keys'["K_a"]) * 100 * dt
        /\ TicksPerSec * (pos'.y - pos.y) = (keys'["K_SPACE"] - keys'["K_LSHIFT"]) * 100 * dt
        /\ TicksPerSec * (pos'.z - pos.z) = (keys'["K_w"] - keys'["K_s"]) * 100 * dt
        /\ (OnlyPressed({"K_w"}) /\ dt = TicksPerSec)
                => pos' = [pos EXCEPT !.z = @ + 100]
        /\ (keys'["K_w"] = 1 /\ keys'["K_s"] = 1) => pos'.z = pos.z
        /\ (keys'["K_d"] = 1 /\ keys'["K_a"] = 1) => pos'.x = pos.x
        /\ (keys'["K_SPACE"] = 1 /\ keys'["K_LSHIFT"] = 1) => pos'.y = pos.y

C8_Move == [][C8_MoveStep]_vars

(* the first frame of main with forward and back both held *)
C8_Witness ==
    /\ pc = "render"
    /\ frame = 1
    /\ keys = Pressed({"K_w", "K_s"})
    /\ pos = Vec3(-10, 0, -10)

(* C9: the frame delta of the first frame is a small positive constant, no  *)
(* larger than the delta of an ordinary frame.                             *)
C9_SmallFirstDelta == frame = 1 => (0 < dt /\ dt <= FrameDelta)

(* C10 as claimed: over one render every pair of projected points, within   *)
(* and across polygons, is joined by a drawn line.                         *)
C10_EveryPairJoined ==
    Rendered =>
        \A i \in 1..Len(coords), j \in 1..Len(coords) :
            i < j => {i, j} \in DrawnSegments

(* C10 as amended: render keeps one list of the projected points of all     *)
(* polygons and, each time a point is appended, draws the whole polyline   *)
(* through the list again: the k-th append draws k - 1 lines, each between *)
(* two consecutive points, so the segments drawn are exactly the pairs of  *)
(* consecutive points of the list, within and across polygons.             *)
C10_ConsecutivePairsJoined ==
    LET n == Len(coords)
    IN  /\ 2 * Len(lines) = n * (n - 1)
        /\ Range(lines) = {<<i, i + 1>> : i \in 1..(n - 1)}
        /\ \A i \in 1..(n - 1) :
                Cardinality({m \in 1..Len(lines) : lines[m] = <<i, i + 1>>}) = n - i

(* two cubes rendered: the last vertex of the first is joined to the first *)
(* vertex of the second                                                    *)
C10_Witness ==
    /\ pc = "present"
    /\ Len(polygons) = 2
    /\ Len(coords) = 16
    /\ <<8, 9>> \in Range(lines)
====
